---------------------------- MODULE Spec2Model ----------------------------
(***************************************************************************)
(* The Launch Pipeline Controller of src/src/features/profiles/data.ts     *)
(* (createController, lines 337-872) as a state machine.                   *)
(*                                                                         *)
(* The controller is single-threaded JavaScript: a call of start() or      *)
(* runPhase() runs until its first awaited platform call or delay, and is  *)
(* resumed when that call returns.  One action of this module is one such  *)
(* run-to-suspension segment; the operations stop(), retryFailed() and a   *)
(* further start()/runPhase() may be called between any two segments.      *)
(* An await of a stage that returns without reaching a platform call or a  *)
(* delay does not let any event handler in, and is part of the segment.    *)
(*                                                                         *)
(* Identifiers are abstracted to "null or not": Null stands for null, a    *)
(* positive number for an identifier the platform returned.  Time is       *)
(* abstracted: a delay is a suspension that ends at some later step.       *)
(*                                                                         *)
(* The last part models createAdsWithRetry of the Add Ads flow             *)
(* (src/unnamed/part_002, lines 328-406), a function of its own that       *)
(* shares nothing with the controller.                                     *)
(***************************************************************************)
EXTENDS Naturals, Sequences, FiniteSets

\* ------------------------------------------------------------------ bounds

\* the input list holds 1..NItems media items
NItems == 2
\* number of start()/runPhase() invocations that may be suspended at once
MaxTasks == 2
\* the platform returns campaign and ad-set identifiers 1..MaxId
MaxId == 2
\* failing responses are delivered only while they keep retryCount <= MaxRetryCount
MaxRetryCount == 3
\* the configured maxRetries ranges over 0..MaxRetriesOpt
MaxRetriesOpt == 2
\* the configured maxTicks ranges over 1..MaxTicksOpt
MaxTicksOpt == 2
\* a run over n media items makes at most MaxCalls + 1 - n calls of start(),
\* stop(), getState(), retryFailed() and runPhase(), at most MaxRuns + 1 - n
\* of them calls of start() (one that finds isRunning false) or runPhase()
MaxCalls == 3
MaxRuns == 2
\* createAdsWithRetry is called with 0..MaxAdItems items and maxRetries in
\* 1..MaxRetriesArg
MaxAdItems == 2
MaxRetriesArg == 3
\* chunkArray(pending, 25), src/unnamed/part_002 line 344
AdsChunkSize == 25

Null == 0
Tasks == 1..MaxTasks
Ids == 1..MaxId
\* the names of the items handed to createAdsWithRetry
AdNames == {"a", "b"}

VARIABLES
    options,     \* the options record after defaults were applied
    phase, isRunning, isStopped, campaignId, adsetId, tick, error,   \* FbLaunchState
    media,       \* state.media: the Media State Store
    tasks,       \* the suspended invocations of start() and runPhase()
    calls,       \* history: how many calls of the public surface were made (all),
                 \* how many of them ran start() or runPhase() (runs)
    last,        \* history: the platform call the last step dispatched (call), the
                 \* URLs an upload call carried (sent) and how the invocation the
                 \* step ran ended, if it did (ret)
    emitted,     \* the snapshot the progress sink received last
    addAds       \* the locals of a call of createAdsWithRetry (Add Ads flow)

vars == <<options, phase, isRunning, isStopped, campaignId, adsetId, tick,
          error, media, tasks, calls, last, emitted, addAds>>

\* ------------------------------------------------------------------ helpers

Min(a, b) == IF a < b THEN a ELSE b

\* the indices of the media array, as a set and in array order
Items == DOMAIN media
ItemSeq == [i \in 1..Len(media) |-> i]

\* Array.prototype.filter over state.media, keeping array order
Filter(Test(_)) == SelectSeq(ItemSeq, Test)

Range(s) == {s[k] : k \in 1..Len(s)}

\* the "Split into batches" loops of uploadVideos and createAds
SplitBatches(sel, size) ==
    [k \in 1..((Len(sel) + size - 1) \div size) |->
        SubSeq(sel, (k - 1) * size + 1, Min(k * size, Len(sel)))]

\* ------------------------------------------------------------------ statistics

Count(m, Test(_)) == Cardinality({i \in DOMAIN m : Test(m[i])})

getStats(m) ==
    [upload |->
        [queued     |-> Count(m, LAMBDA x : x.type = "video" /\ x.stage = "upload" /\ x.status = "queued"),
         inProgress |-> Count(m, LAMBDA x : x.type = "video" /\ x.stage = "upload" /\ x.status = "in_progress"),
         failed     |-> Count(m, LAMBDA x : x.type = "video" /\ x.stage = "upload" /\ x.status = "failed")],
     poll |->
        [waiting    |-> Count(m, LAMBDA x : x.type = "video" /\ x.stage = "poll")],
     ad |->
        [queued     |-> Count(m, LAMBDA x : x.stage = "ad" /\ x.status \in {"queued", "retry"}),
         inProgress |-> Count(m, LAMBDA x : x.stage = "ad" /\ x.status = "in_progress"),
         failed     |-> Count(m, LAMBDA x : x.stage = "ad" /\ x.status = "failed")],
     done   |-> Count(m, LAMBDA x : x.stage = "done"),
     failed |-> Count(m, LAMBDA x : x.stage = "failed"),
     total  |-> Len(m)]

\* ------------------------------------------------------------------ construction

\* one element of the input list: fallbackUrl is TRUE when the caller gave one
\* (a fallbackUrl is read for a video only before it has a platform video id)
MediaInputs ==
    [type : {"video", "image"}, fallbackUrl : BOOLEAN, fbVideoId : {Null}]
      \cup [type : {"video"}, fallbackUrl : {FALSE}, fbVideoId : {1}]

InitialMedia(item) ==
    [type         |-> item.type,
     fallbackUrl  |-> item.fallbackUrl,
     url          |-> "url",
     stage        |-> IF item.type = "video" /\ item.fbVideoId = Null THEN "upload" ELSE "ad",
     status       |-> "queued",
     retryCount   |-> 0,
     usedFallback |-> FALSE,
     fbVideoId    |-> item.fbVideoId,
     thumbnailUrl |-> Null,
     adId         |-> Null,
     error        |-> "null"]

\* ------------------------------------------------------------------ failure handlers

\* (a handler that allows one retry too many)
handleUploadFailureOneMore(m, v) ==
    LET n == m[v].retryCount + 1 IN
    IF ~m[v].usedFallback /\ m[v].fallbackUrl
    THEN [m EXCEPT ![v].retryCount = n, ![v].usedFallback = TRUE, ![v].status = "retry"]
    ELSE IF n <= options.maxRetries
    THEN [m EXCEPT ![v].retryCount = n, ![v].status = "retry"]
    ELSE [m EXCEPT ![v].retryCount = n, ![v].stage = "failed", ![v].status = "failed",
                   ![v].error = "Max retries exceeded"]

handleUploadFailure(m, v) ==
    LET n == m[v].retryCount + 1 IN
    IF ~m[v].usedFallback /\ m[v].fallbackUrl
    THEN [m EXCEPT ![v].retryCount = n, ![v].usedFallback = TRUE, ![v].status = "retry"]
    ELSE IF n < options.maxRetries
    THEN [m EXCEPT ![v].retryCount = n, ![v].status = "retry"]
    ELSE [m EXCEPT ![v].retryCount = n, ![v].stage = "failed", ![v].status = "failed",
                   ![v].error = "Max retries exceeded"]

\* (a handler that swaps in the fallback URL of videos as well)
handleAdFailureAnyType(m, v) ==
    LET n == m[v].retryCount + 1 IN
    IF ~m[v].usedFallback /\ m[v].fallbackUrl
    THEN [m EXCEPT ![v].retryCount = n, ![v].usedFallback = TRUE, ![v].url = "fallbackUrl",
                   ![v].status = "retry"]
    ELSE IF n < options.maxRetries
    THEN [m EXCEPT ![v].retryCount = n, ![v].status = "retry"]
    ELSE [m EXCEPT ![v].retryCount = n, ![v].stage = "failed", ![v].status = "failed",
                   ![v].error = "Max retries exceeded"]

handleAdFailure(m, v) ==
    LET n == m[v].retryCount + 1 IN
    IF m[v].type = "image" /\ ~m[v].usedFallback /\ m[v].fallbackUrl
    THEN [m EXCEPT ![v].retryCount = n, ![v].usedFallback = TRUE, ![v].url = "fallbackUrl",
                   ![v].status = "retry"]
    ELSE IF n < options.maxRetries
    THEN [m EXCEPT ![v].retryCount = n, ![v].status = "retry"]
    ELSE [m EXCEPT ![v].retryCount = n, ![v].stage = "failed", ![v].status = "failed",
                   ![v].error = "Max retries exceeded"]

\* (a loop that handles only the first item it is given)
FailAllFirstOnly(m, batch, k, isUpload) ==
    IF k > Len(batch) THEN m
    ELSE IF isUpload THEN handleUploadFailure(m, batch[k]) ELSE handleAdFailure(m, batch[k])

\* batch.forEach(handler): the handler applied to batch[k], batch[k+1], ...
RECURSIVE FailAll(_, _, _, _)
FailAll(m, batch, k, isUpload) ==
    IF k > Len(batch) THEN m
    ELSE FailAll(IF isUpload THEN handleUploadFailure(m, batch[k])
                             ELSE handleAdFailure(m, batch[k]),
                 batch, k + 1, isUpload)

\* ------------------------------------------------------------------ invocations

\* A suspended invocation: kind is "start" or "runPhase"; ctx names the place of
\* the caller the running stage returns to; at names the await it is suspended
\* at; batches, i and sel are the locals of the running stage (the batch list,
\* the index of the batch in flight or about to be sent, the polled items).
NoTask == [kind |-> "none", ctx |-> "none", at |-> "none", batches |-> <<>>, i |-> 0, sel |-> {}]

\* The controller state as one run-to-suspension segment sees and changes it,
\* with the invocation's own record (task), the platform call the segment
\* dispatched (call) and how the invocation ended, if it did (ret).
Ctx(t) ==
    [phase |-> phase, isRunning |-> isRunning, isStopped |-> isStopped,
     campaignId |-> campaignId, adsetId |-> adsetId, tick |-> tick, error |-> error,
     media |-> media, task |-> tasks[t], call |-> "none", ret |-> "none",
     sent |-> <<>>, emitted |-> emitted]

\* the segment ends at an await: a platform call (call # "none") or a delay
Await(c, at, call) == [c EXCEPT !.task.at = at, !.call = call]
\* the running stage function returns to its caller, or throws to it
Return(c) == [c EXCEPT !.task.at = "returned", !.task.batches = <<>>, !.task.i = 0, !.task.sel = {}]
Throw(c) == [c EXCEPT !.task.at = "thrown", !.task.batches = <<>>, !.task.i = 0, !.task.sel = {}]
Suspended(c) == c.task.at \notin {"returned", "thrown"}
In(c, ctx) == [c EXCEPT !.task.ctx = ctx]

\* { ...state }: a new object with the top-level properties of state.  The
\* scalars are copied; the media property is the reference to the array
\* state.media itself, whose items are not copied either.  seen is history:
\* what that array held when the snapshot was made.  (elapsed and stats are
\* derived values.)
Snapshot(c) ==
    [phase |-> c.phase, isRunning |-> c.isRunning, isStopped |-> c.isStopped,
     campaignId |-> c.campaignId, adsetId |-> c.adsetId, tick |-> c.tick,
     error |-> c.error, media |-> "state.media", seen |-> c.media]

\* before any snapshot was made
NoSnapshot ==
    [phase |-> "none", isRunning |-> FALSE, isStopped |-> FALSE, campaignId |-> Null,
     adsetId |-> Null, tick |-> 0, error |-> "none", media |-> "none", seen |-> <<>>]

\* what the holder of snapshot s reads through its media property when the
\* array state.media holds m
ReadMedia(s, m) == IF s.media = "state.media" THEN m ELSE s.seen

\* emitProgress hands the sink a snapshot
emitProgress(c) == [c EXCEPT !.emitted = Snapshot(c)]

\* ------------------------------------------------------------------ check library

checkLibrary(c) ==
    IF c.isStopped THEN Return(c)
    ELSE LET c1 == emitProgress([c EXCEPT !.phase = "checking"])
             videos == Filter(LAMBDA i : c.media[i].type = "video")
         IN IF Len(videos) = 0 THEN Return(c1)
            ELSE Await(c1, "checkLibraryByName", "checkLibraryByName")

\* (a library match that also forgets the failures counted so far)
checkLibraryResumeResetsCount(c, r) ==
    IF r.kind = "throw" THEN Return(c)
    ELSE Return(emitProgress([c EXCEPT !.media =
            [v \in Items |->
                IF v \in r.ready
                THEN [c.media[v] EXCEPT !.fbVideoId = 1, !.thumbnailUrl = 1, !.retryCount = 0,
                                        !.stage = "ad", !.status = "queued"]
                ELSE c.media[v]]]))

checkLibraryResume(c, r) ==
    IF r.kind = "throw" THEN Return(c)
    ELSE Return(emitProgress([c EXCEPT !.media =
            [v \in Items |->
                IF v \in r.ready
                THEN [c.media[v] EXCEPT !.fbVideoId = 1, !.thumbnailUrl = 1,
                                        !.stage = "ad", !.status = "queued"]
                ELSE c.media[v]]]))

\* ------------------------------------------------------------------ upload videos

\* data.forEach over an itemized upload response: entry k is "ok" (code 200 and
\* a body with an id), "fail" (another code, or a body without id) or "bad"
\* (the handler throws: a body JSON.parse rejects); an entry past the end of
\* the batch has no video and throws as well.  The result is the media list
\* and whether the loop threw.
RECURSIVE uploadEntries(_, _, _, _)
uploadEntries(m, batch, entries, k) ==
    IF k > Len(entries) THEN [media |-> m, threw |-> FALSE]
    ELSE IF k > Len(batch) \/ entries[k] = "bad" THEN [media |-> m, threw |-> TRUE]
    ELSE IF entries[k] = "ok"
    THEN uploadEntries([m EXCEPT ![batch[k]].fbVideoId = 1, ![batch[k]].stage = "poll",
                                 ![batch[k]].status = "queued"], batch, entries, k + 1)
    ELSE uploadEntries(handleUploadFailure(m, batch[k]), batch, entries, k + 1)

\* the body of the try/catch of one upload batch, lines 484-511
uploadResponse(m, batch, r) ==
    IF r.kind \in {"throw", "nonarray"} THEN FailAll(m, batch, 1, TRUE)
    ELSE LET res == uploadEntries(m, batch, r.entries, 1)
         IN IF res.threw THEN FailAll(res.media, batch, 1, TRUE) ELSE res.media

\* lines 471-474: the URL sent for each video of the batch
videosToSend(m, batch) ==
    [k \in 1..Len(batch) |->
        IF m[batch[k]].usedFallback
        THEN (IF m[batch[k]].fallbackUrl THEN "fallbackUrl" ELSE m[batch[k]].url)
        ELSE m[batch[k]].url]

\* lines 471-481: the batch c.task.i is sent
uploadDispatch(c) ==
    Await([c EXCEPT !.sent = videosToSend(c.media, c.task.batches[c.task.i])],
          "uploadVideoBatch", "uploadVideoBatch")

\* (a batch loop without the stagger delay)
uploadLoopNoStagger(c) ==
    IF c.task.i > Len(c.task.batches) THEN Return(c)
    ELSE IF c.isStopped THEN Return(c)
    ELSE uploadDispatch(c)

\* the head of the batch loop for batch c.task.i: the stop check, then the
\* stagger delay for every batch but the first
uploadLoop(c) ==
    IF c.task.i > Len(c.task.batches) THEN Return(c)
    ELSE IF c.isStopped THEN Return(c)
    ELSE IF c.task.i > 1 THEN Await(c, "uploadStagger", "none")
    ELSE uploadDispatch(c)

uploadVideos(c) ==
    IF c.isStopped THEN Return(c)
    ELSE LET c1 == emitProgress([c EXCEPT !.phase = "uploading"])
             toUpload == Filter(LAMBDA i : /\ c.media[i].type = "video"
                                           /\ c.media[i].stage = "upload"
                                           /\ c.media[i].status \in {"queued", "retry"})
         IN IF Len(toUpload) = 0 THEN Return(c1)
            ELSE uploadLoop(emitProgress(
                    [c1 EXCEPT !.media = [v \in Items |->
                                    IF v \in Range(toUpload)
                                    THEN [c.media[v] EXCEPT !.status = "in_progress"]
                                    ELSE c.media[v]],
                               !.task.batches = SplitBatches(toUpload, options.uploadBatchSize),
                               !.task.i = 1]))

\* the stagger delay is over: the batch is sent
uploadStaggerResume(c) == uploadDispatch(c)

uploadVideosResume(c, r) ==
    uploadLoop(emitProgress(
        [c EXCEPT !.media = uploadResponse(c.media, c.task.batches[c.task.i], r),
                  !.task.i = c.task.i + 1]))

\* ------------------------------------------------------------------ poll videos

\* (a poll that looks up every video with a video id, whatever its stage)
pollVideosAnyStage(c) ==
    IF c.isStopped THEN Return(c)
    ELSE LET c1 == [c EXCEPT !.phase = "polling"]
             toPoll == Filter(LAMBDA i : /\ c.media[i].type = "video"
                                         /\ c.media[i].fbVideoId # Null)
         IN IF Len(toPoll) = 0 THEN Return(c1)
            ELSE Await([c1 EXCEPT !.task.sel = Range(toPoll)], "pollLibrary", "pollLibrary")

pollVideos(c) ==
    IF c.isStopped THEN Return(c)
    ELSE LET c1 == [c EXCEPT !.phase = "polling"]
             toPoll == Filter(LAMBDA i : /\ c.media[i].type = "video"
                                         /\ c.media[i].stage = "poll"
                                         /\ c.media[i].fbVideoId # Null)
         IN IF Len(toPoll) = 0 THEN Return(c1)
            ELSE Await([c1 EXCEPT !.task.sel = Range(toPoll)], "pollLibrary", "pollLibrary")

\* (pollVideos without its try/catch)
pollVideosResumeNoCatch(c, r) ==
    IF r.kind = "throw" THEN Throw(c)
    ELSE Return(emitProgress([c EXCEPT !.media =
            [v \in Items |->
                IF v \in c.task.sel /\ v \in r.ready
                THEN [c.media[v] EXCEPT !.thumbnailUrl = 1, !.stage = "ad", !.status = "queued"]
                ELSE c.media[v]]]))

\* (a catch block that runs the upload failure handler on the polled items)
pollVideosResumeFailsBatch(c, r) ==
    IF r.kind = "throw"
    THEN Return(emitProgress([c EXCEPT !.media =
            [v \in Items |->
                IF v \in c.task.sel THEN handleUploadFailure(c.media, v)[v]
                ELSE c.media[v]]]))
    ELSE Return(emitProgress([c EXCEPT !.media =
            [v \in Items |->
                IF v \in c.task.sel /\ v \in r.ready
                THEN [c.media[v] EXCEPT !.thumbnailUrl = 1, !.stage = "ad", !.status = "queued"]
                ELSE c.media[v]]]))

pollVideosResume(c, r) ==
    IF r.kind = "throw" THEN Return(c)
    ELSE Return(emitProgress([c EXCEPT !.media =
            [v \in Items |->
                IF v \in c.task.sel /\ v \in r.ready
                THEN [c.media[v] EXCEPT !.thumbnailUrl = 1, !.stage = "ad", !.status = "queued"]
                ELSE c.media[v]]]))

\* ------------------------------------------------------------------ campaign and ad set

\* the catch block of createCampaignAndAdSet, lines 609-615
campaignCatch(c, msg) ==
    Throw(emitProgress([c EXCEPT !.phase = "error", !.error = msg]))

createCampaignAndAdSet(c) ==
    IF c.isStopped THEN Return(c)
    ELSE IF c.campaignId # Null /\ c.adsetId # Null THEN Return(c)
    ELSE Await(emitProgress([c EXCEPT !.phase = "creating_campaign"]),
               "createCampaign", "createCampaign")

createCampaignResume(c, r) ==
    IF r.kind = "throw" THEN campaignCatch(c, "transport")
    ELSE IF r.kind = "error" THEN campaignCatch(c, "Campaign: message")
    ELSE LET c1 == emitProgress([c EXCEPT !.campaignId = r.id])
         IN IF c1.isStopped THEN Return(c1)
            ELSE Await(c1, "createAdSet", "createAdSet")

createAdSetResume(c, r) ==
    IF r.kind = "throw" THEN campaignCatch(c, "transport")
    ELSE IF r.kind = "error" THEN campaignCatch(c, "AdSet: message")
    ELSE Return(emitProgress([c EXCEPT !.adsetId = r.id]))

\* ------------------------------------------------------------------ create ads

RECURSIVE adEntries(_, _, _, _)
adEntries(m, batch, entries, k) ==
    IF k > Len(entries) THEN [media |-> m, threw |-> FALSE]
    ELSE IF k > Len(batch) \/ entries[k] = "bad" THEN [media |-> m, threw |-> TRUE]
    ELSE IF entries[k] = "ok"
    THEN adEntries([m EXCEPT ![batch[k]].adId = 1, ![batch[k]].stage = "done",
                             ![batch[k]].status = "completed"], batch, entries, k + 1)
    ELSE adEntries(handleAdFailure(m, batch[k]), batch, entries, k + 1)

\* the body of the try/catch of one ad batch, lines 656-683
adResponse(m, batch, r) ==
    IF r.kind \in {"throw", "nonarray"} THEN FailAll(m, batch, 1, FALSE)
    ELSE LET res == adEntries(m, batch, r.entries, 1)
         IN IF res.threw THEN FailAll(res.media, batch, 1, FALSE) ELSE res.media

\* the head of the batch loop for batch c.task.i: the stop check, the
\* in_progress mark of that batch, the dispatch
adLoop(c) ==
    IF c.task.i > Len(c.task.batches) THEN Return(c)
    ELSE IF c.isStopped THEN Return(c)
    ELSE Await(emitProgress(
            [c EXCEPT !.media = [v \in Items |->
                            IF v \in Range(c.task.batches[c.task.i])
                            THEN [c.media[v] EXCEPT !.status = "in_progress"]
                            ELSE c.media[v]]]),
            "createAdsBatch", "createAdsBatch")

createAds(c) ==
    IF c.isStopped THEN Return(c)
    ELSE LET c1 == [c EXCEPT !.phase = "creating_ads"]
             toCreate == Filter(LAMBDA i : /\ c.media[i].stage = "ad"
                                           /\ c.media[i].status \in {"queued", "retry"})
         IN IF Len(toCreate) = 0 THEN Return(c1)
            ELSE adLoop([c1 EXCEPT !.task.batches = SplitBatches(toCreate, options.adBatchSize),
                                   !.task.i = 1])

createAdsResume(c, r) ==
    adLoop(emitProgress(
        [c EXCEPT !.media = adResponse(c.media, c.task.batches[c.task.i], r),
                  !.task.i = c.task.i + 1]))

\* ------------------------------------------------------------------ start and the tick loop

\* the invocation's promise resolves (return) or rejects (throw)
Resolve(c) == [c EXCEPT !.ret = "resolved", !.task = NoTask]
Reject(c) == [c EXCEPT !.ret = "rejected", !.task = NoTask]

\* start(), lines 776-783: runTickLoop has returned
startFinish(c) ==
    Resolve(emitProgress([c EXCEPT !.phase = IF ~c.isStopped THEN "complete" ELSE c.phase,
                                   !.isRunning = FALSE]))

\* (a catch block that forgets to clear isRunning)
startCatchKeepsRunning(c) ==
    Reject(emitProgress([c EXCEPT !.phase = "error"]))

\* start(), lines 784-790: the catch block
startCatch(c) ==
    Reject(emitProgress([c EXCEPT !.phase = "error", !.isRunning = FALSE]))

\* (a completion check that sets 'complete' and goes on to the wait)
tickCheckDoneNoBreak(c) ==
    LET stats == getStats(c.media)
        c1 == IF stats.done + stats.failed = stats.total
              THEN emitProgress([c EXCEPT !.phase = "complete"]) ELSE c
    IN IF c.tick < options.maxTicks /\ ~c.isStopped
       THEN Await(In(c1, "runTickLoop"), "tickInterval", "none")
       ELSE startFinish(c1)

\* (a completion check that shows the wait as phase 'idle')
tickCheckDoneIdles(c) ==
    LET stats == getStats(c.media) IN
    IF stats.done + stats.failed = stats.total
    THEN startFinish(emitProgress([c EXCEPT !.phase = "complete"]))
    ELSE IF c.tick < options.maxTicks /\ ~c.isStopped
    THEN Await(In(emitProgress([c EXCEPT !.phase = "idle"]), "runTickLoop"),
               "tickInterval", "none")
    ELSE startFinish(c)

\* runTickLoop, lines 729-741: the completion check and the wait.  The wait's
\* condition is the condition of the while loop, so when there is no wait the
\* loop ends and runTickLoop returns.
tickCheckDone(c) ==
    LET stats == getStats(c.media) IN
    IF stats.done + stats.failed = stats.total
    THEN startFinish(emitProgress([c EXCEPT !.phase = "complete"]))
    ELSE IF c.tick < options.maxTicks /\ ~c.isStopped
    THEN Await(In(c, "runTickLoop"), "tickInterval", "none")
    ELSE startFinish(c)

\* (a tick without its upload-retry step)
tickRetryUploadsNever(c) == tickCheckDone(c)

\* runTickLoop, lines 721-727: step 3, after createAds returned
tickRetryUploads(c) ==
    IF \E v \in Items : /\ c.media[v].type = "video"
                        /\ c.media[v].stage = "upload"
                        /\ c.media[v].status = "retry"
    THEN LET c1 == uploadVideos(In(c, "tick.upload"))
         IN IF Suspended(c1) THEN c1 ELSE tickCheckDone(c1)
    ELSE tickCheckDone(c)

\* runTickLoop, line 719: step 2, after pollVideos returned
tickCreateAds(c) ==
    LET c1 == createAds(In(c, "tick.ads"))
    IN IF Suspended(c1) THEN c1 ELSE tickRetryUploads(c1)

\* (a tick loop that does not count its ticks)
tickLoopNoCount(c) ==
    IF c.tick < options.maxTicks /\ ~c.isStopped
    THEN LET c1 == pollVideos(In(emitProgress(c), "tick.poll"))
         IN IF Suspended(c1) THEN c1 ELSE tickCreateAds(c1)
    ELSE startFinish(c)

\* (a tick loop whose condition forgets maxTicks)
tickLoopUnbounded(c) ==
    IF ~c.isStopped
    THEN LET c1 == pollVideos(In(emitProgress([c EXCEPT !.tick = c.tick + 1]), "tick.poll"))
         IN IF Suspended(c1) THEN c1 ELSE tickCreateAds(c1)
    ELSE startFinish(c)

\* runTickLoop, lines 711-716: the loop condition, the tick count, step 1
tickLoop(c) ==
    IF c.tick < options.maxTicks /\ ~c.isStopped
    THEN LET c1 == pollVideos(In(emitProgress([c EXCEPT !.tick = c.tick + 1]), "tick.poll"))
         IN IF Suspended(c1) THEN c1 ELSE tickCreateAds(c1)
    ELSE startFinish(c)

\* start(), lines 771-774: after createCampaignAndAdSet returned; runTickLoop
\* starts with the initial poll delay
startRunTickLoop(c) ==
    IF c.isStopped THEN Resolve(c)
    ELSE Await(In(c, "runTickLoop"), "initialPollDelay", "none")

\* start(), lines 766-769: after uploadVideos returned
startCreateCampaign(c) ==
    IF c.isStopped THEN Resolve(c)
    ELSE LET c1 == createCampaignAndAdSet(In(c, "start.campaign"))
         IN IF Suspended(c1) THEN c1 ELSE startRunTickLoop(c1)

\* start(), lines 761-764: after checkLibrary returned (or was skipped)
startUpload(c) ==
    IF c.isStopped THEN Resolve(c)
    ELSE LET c1 == uploadVideos(In(c, "start.upload"))
         IN IF Suspended(c1) THEN c1 ELSE startCreateCampaign(c1)

\* start(), lines 750-759, for a call that found isRunning false
startBody(c) ==
    LET c1 == emitProgress([c EXCEPT !.isRunning = TRUE, !.isStopped = FALSE])
    IN IF options.checkLibraryFirst /\ ~options.forceReupload
       THEN LET c2 == checkLibrary(In(c1, "start.check"))
            IN IF Suspended(c2) THEN c2 ELSE startUpload(c2)
       ELSE startUpload(c1)

\* The stage of the invocation returned or threw: its caller goes on.  What a
\* stage throws leaves runTickLoop and reaches the catch block of start(),
\* whose try block holds every stage; runPhase has no catch block.
Continue(c) ==
    IF Suspended(c) THEN c
    ELSE IF c.task.at = "thrown"
    THEN (IF c.task.kind = "start" THEN startCatch(c) ELSE Reject(c))
    ELSE IF c.task.ctx = "runPhase" THEN Resolve(c)
    ELSE IF c.task.ctx = "start.check" THEN startUpload(c)
    ELSE IF c.task.ctx = "start.upload" THEN startCreateCampaign(c)
    ELSE IF c.task.ctx = "start.campaign" THEN startRunTickLoop(c)
    ELSE IF c.task.ctx = "tick.poll" THEN tickCreateAds(c)
    ELSE IF c.task.ctx = "tick.ads" THEN tickRetryUploads(c)
    ELSE tickCheckDone(c)

\* (a runPhase whose poll case goes on to create the ads)
runPhaseBodyPollCreatesAds(c, name) ==
    LET c1 == In([c EXCEPT !.isStopped = FALSE], "runPhase")
    IN Continue(CASE name = "check" -> checkLibrary(c1)
                  [] name = "upload" -> uploadVideos(c1)
                  [] name = "campaign" -> createCampaignAndAdSet(c1)
                  [] name = "ads" -> createAds(c1)
                  [] name = "poll" -> createAds(c1))

\* runPhase, lines 836-860
runPhaseBody(c, name) ==
    LET c1 == In([c EXCEPT !.isStopped = FALSE], "runPhase")
    IN Continue(CASE name = "check" -> checkLibrary(c1)
                  [] name = "upload" -> uploadVideos(c1)
                  [] name = "campaign" -> createCampaignAndAdSet(c1)
                  [] name = "ads" -> createAds(c1)
                  [] name = "poll" -> pollVideos(c1))

\* ------------------------------------------------------------------ the platform's answers

\* sequences over S of length 0..n
RECURSIVE SeqsUpTo(_, _)
SeqsUpTo(S, n) ==
    IF n = 0 THEN {<<>>}
    ELSE LET shorter == SeqsUpTo(S, n - 1)
         IN shorter \cup {Append(q, x) : q \in {p \in shorter : Len(p) = n - 1}, x \in S}

\* what a batch call may answer: it throws, answers a non-array payload, or
\* an itemized array with fewer, as many or one more entries than the batch
BatchAnswers(batch) ==
    {[kind |-> k, entries |-> <<>>] : k \in {"throw", "nonarray"}}
      \cup {[kind |-> "array", entries |-> e] : e \in SeqsUpTo({"ok", "fail", "bad"}, Len(batch) + 1)}

\* a library lookup throws, or reports a set of videos ready with a picture
\* (the empty set also stands for a payload without data)
LibraryAnswers(S) ==
    {[kind |-> "throw", ready |-> {}]} \cup {[kind |-> "data", ready |-> R] : R \in SUBSET S}

\* a creation call throws, or answers a payload with an error or with an id
IdAnswers ==
    {[kind |-> k, id |-> Null] : k \in {"throw", "error"}}
      \cup {[kind |-> "data", id |-> i] : i \in Ids}

Videos == {v \in Items : media[v].type = "video"}

\* the model's bound on retryCount
Bounded(c) == \A v \in Items : c.media[v].retryCount <= MaxRetryCount

\* ------------------------------------------------------------------ actions

\* the segment's result becomes the state
Commit(t, c) ==
    /\ phase' = c.phase
    /\ isRunning' = c.isRunning
    /\ isStopped' = c.isStopped
    /\ campaignId' = c.campaignId
    /\ adsetId' = c.adsetId
    /\ tick' = c.tick
    /\ error' = c.error
    /\ media' = c.media
    /\ tasks' = [tasks EXCEPT ![t] = c.task]
    /\ last' = [call |-> c.call, ret |-> c.ret, sent |-> c.sent]
    /\ emitted' = c.emitted
    /\ UNCHANGED <<options, addAds>>

\* a call of the public surface, within the model's bounds; r is 1 for a call
\* that runs start() or runPhase() and 0 for any other
Called(r) ==
    /\ calls.all + Len(media) <= MaxCalls
    /\ calls.runs + r + Len(media) <= MaxRuns + 1
    /\ calls' = [all |-> calls.all + 1, runs |-> calls.runs + r]

FreeTask(t) == tasks[t].kind = "none" /\ \A u \in Tasks : u < t => tasks[u].kind # "none"

\* start() while isRunning: returns the state at once
StartNoop ==
    /\ isRunning
    /\ Called(0)
    /\ last' = [call |-> "none", ret |-> "resolved", sent |-> <<>>]
    /\ UNCHANGED <<options, phase, isRunning, isStopped, campaignId, adsetId,
                   tick, error, media, tasks, emitted, addAds>>

Start(t) ==
    /\ ~isRunning
    /\ FreeTask(t)
    /\ Called(1)
    /\ Commit(t, startBody([Ctx(t) EXCEPT !.task.kind = "start"]))

RunPhase(t, name) ==
    /\ FreeTask(t)
    /\ Called(1)
    /\ Commit(t, runPhaseBody([Ctx(t) EXCEPT !.task.kind = "runPhase"], name))

\* (a stop that flips the stop flag)
stopToggles(c) ==
    emitProgress([c EXCEPT !.isStopped = ~c.isStopped, !.phase = "stopped", !.isRunning = FALSE])

\* stop(), lines 796-801
stop(c) ==
    emitProgress([c EXCEPT !.isStopped = TRUE, !.phase = "stopped", !.isRunning = FALSE])

\* stop() and retryFailed() belong to no invocation: Commit leaves tasks as it is
Stop ==
    /\ Called(0)
    /\ Commit(1, stop(Ctx(1)))

\* getState(), lines 806-809
getState(c) == Snapshot(c)

\* the snapshot goes to the caller; state.stats is a derived value
GetState ==
    /\ Called(0)
    /\ last' = [call |-> "none", ret |-> "snapshot", sent |-> <<>>]
    /\ UNCHANGED <<options, phase, isRunning, isStopped, campaignId, adsetId,
                   tick, error, media, tasks, emitted, addAds>>

\* (a retry-all that also forgets the fallback was used)
retryFailedItemResetsFallback(x) ==
    IF x.status = "failed"
    THEN [x EXCEPT !.status = "retry", !.retryCount = 0, !.error = "null",
                   !.usedFallback = FALSE,
                   !.stage = IF x.type = "video" /\ x.fbVideoId = Null THEN "upload"
                             ELSE IF x.type = "video" /\ x.thumbnailUrl = Null THEN "poll"
                             ELSE "ad"]
    ELSE x

\* (a retry-all that leaves the stage as it is)
retryFailedItemKeepsStage(x) ==
    IF x.status = "failed"
    THEN [x EXCEPT !.status = "retry", !.retryCount = 0, !.error = "null"]
    ELSE x

\* retryFailed(), lines 814-831
retryFailedItem(x) ==
    IF x.status = "failed"
    THEN [x EXCEPT !.status = "retry", !.retryCount = 0, !.error = "null",
                   !.stage = IF x.type = "video" /\ x.fbVideoId = Null THEN "upload"
                             ELSE IF x.type = "video" /\ x.thumbnailUrl = Null THEN "poll"
                             ELSE "ad"]
    ELSE x

\* (a retry-all that also clears the stop flag)
retryFailedClearsStop(c) ==
    emitProgress([c EXCEPT !.media = [v \in Items |-> retryFailedItem(c.media[v])],
                           !.isStopped = FALSE])

retryFailed(c) ==
    emitProgress([c EXCEPT !.media = [v \in Items |-> retryFailedItem(c.media[v])]])

RetryFailed ==
    /\ Called(0)
    /\ Commit(1, retryFailed(Ctx(1)))

CheckLibraryReturns(t) ==
    /\ UNCHANGED calls
    /\ tasks[t].at = "checkLibraryByName"
    /\ \E r \in LibraryAnswers(Videos) :
         Commit(t, Continue(checkLibraryResume(Ctx(t), r)))

UploadStaggerElapses(t) ==
    /\ UNCHANGED calls
    /\ tasks[t].at = "uploadStagger"
    /\ Commit(t, uploadStaggerResume(Ctx(t)))

UploadBatchReturns(t) ==
    /\ UNCHANGED calls
    /\ tasks[t].at = "uploadVideoBatch"
    /\ \E r \in BatchAnswers(tasks[t].batches[tasks[t].i]) :
         LET c == Continue(uploadVideosResume(Ctx(t), r))
         IN Bounded(c) /\ Commit(t, c)

PollLibraryReturns(t) ==
    /\ UNCHANGED calls
    /\ tasks[t].at = "pollLibrary"
    /\ \E r \in LibraryAnswers(tasks[t].sel) :
         Commit(t, Continue(pollVideosResume(Ctx(t), r)))

CreateCampaignReturns(t) ==
    /\ UNCHANGED calls
    /\ tasks[t].at = "createCampaign"
    /\ \E r \in IdAnswers :
         Commit(t, Continue(createCampaignResume(Ctx(t), r)))

CreateAdSetReturns(t) ==
    /\ UNCHANGED calls
    /\ tasks[t].at = "createAdSet"
    /\ \E r \in IdAnswers :
         Commit(t, Continue(createAdSetResume(Ctx(t), r)))

CreateAdsBatchReturns(t) ==
    /\ UNCHANGED calls
    /\ tasks[t].at = "createAdsBatch"
    /\ \E r \in BatchAnswers(tasks[t].batches[tasks[t].i]) :
         LET c == Continue(createAdsResume(Ctx(t), r))
         IN Bounded(c) /\ Commit(t, c)

InitialPollDelayElapses(t) ==
    /\ UNCHANGED calls
    /\ tasks[t].at = "initialPollDelay"
    /\ Commit(t, tickLoop(Ctx(t)))

TickIntervalElapses(t) ==
    /\ UNCHANGED calls
    /\ tasks[t].at = "tickInterval"
    /\ Commit(t, tickLoop(Ctx(t)))

\* ------------------------------------------------------------------ specification

\* the locals of createAdsWithRetry (Add Ads flow, src/unnamed/part_002 lines
\* 338-341), before it is called
AddAdsIdle ==
    [pc |-> "none", mediaItems |-> <<>>, maxRetries |-> 0, pending |-> <<>>,
     nextPending |-> <<>>, batches |-> <<>>, b |-> 0, succeeded |-> <<>>,
     failedFinal |-> <<>>, retryMap |-> [n \in AdNames |-> 0],
     sentIn |-> <<>>, result |-> [success |-> 0, failed |-> 0]]


\* the options of a run: both batch sizes are B
OptionsOf(check, B, ticks, retries) ==
    [checkLibraryFirst |-> check, forceReupload |-> FALSE,
     uploadBatchSize |-> B, adBatchSize |-> B, maxTicks |-> ticks, maxRetries |-> retries]

Init ==
    /\ \E n \in 1..NItems : \E inp \in [1..n -> MediaInputs] :
          media = [v \in 1..n |-> InitialMedia(inp[v])]
    /\ options \in {OptionsOf(TRUE, 1, MaxTicksOpt, MaxRetriesOpt),
                     OptionsOf(TRUE, NItems, 1, 1),
                     OptionsOf(FALSE, NItems, 1, 0)}
    /\ phase = "idle"
    /\ isRunning = FALSE
    /\ isStopped = FALSE
    /\ campaignId = Null
    /\ adsetId = Null
    /\ tick = 0
    /\ error = "none"
    /\ tasks = [t \in Tasks |-> NoTask]
    /\ calls = [all |-> 0, runs |-> 0]
    /\ last = [call |-> "none", ret |-> "none", sent |-> <<>>]
    /\ emitted = NoSnapshot
    /\ addAds = AddAdsIdle

Next ==
    \/ StartNoop
    \/ Stop
    \/ GetState
    \/ RetryFailed
    \/ \E t \in Tasks : Start(t)
    \/ \E t \in Tasks : \E name \in {"check", "upload", "campaign", "ads", "poll"} : RunPhase(t, name)
    \/ \E t \in Tasks : CheckLibraryReturns(t)
    \/ \E t \in Tasks : UploadStaggerElapses(t)
    \/ \E t \in Tasks : UploadBatchReturns(t)
    \/ \E t \in Tasks : PollLibraryReturns(t)
    \/ \E t \in Tasks : CreateCampaignReturns(t)
    \/ \E t \in Tasks : CreateAdSetReturns(t)
    \/ \E t \in Tasks : CreateAdsBatchReturns(t)
    \/ \E t \in Tasks : InitialPollDelayElapses(t)
    \/ \E t \in Tasks : TickIntervalElapses(t)

Spec == Init /\ [][Next]_vars

\* ------------------------------------------------------------------ the happy path

\* The platform when every call succeeds: a batch call answers one success
\* entry per item, a creation call answers an id, a poll reports every polled
\* video ready with a picture, the library check reports any set of videos.
AllOk(batch) == [kind |-> "array", entries |-> [k \in 1..Len(batch) |-> "ok"]]

CheckLibrarySucceeds(t) ==
    /\ UNCHANGED calls
    /\ tasks[t].at = "checkLibraryByName"
    /\ \E R \in SUBSET Videos :
         Commit(t, Continue(checkLibraryResume(Ctx(t), [kind |-> "data", ready |-> R])))

UploadBatchSucceeds(t) ==
    /\ UNCHANGED calls
    /\ tasks[t].at = "uploadVideoBatch"
    /\ Commit(t, Continue(uploadVideosResume(Ctx(t), AllOk(tasks[t].batches[tasks[t].i]))))

PollLibraryReportsReady(t) ==
    /\ UNCHANGED calls
    /\ tasks[t].at = "pollLibrary"
    /\ Commit(t, Continue(pollVideosResume(Ctx(t), [kind |-> "data", ready |-> tasks[t].sel])))

CreateCampaignSucceeds(t) ==
    /\ UNCHANGED calls
    /\ tasks[t].at = "createCampaign"
    /\ \E i \in Ids :
         Commit(t, Continue(createCampaignResume(Ctx(t), [kind |-> "data", id |-> i])))

CreateAdSetSucceeds(t) ==
    /\ UNCHANGED calls
    /\ tasks[t].at = "createAdSet"
    /\ \E i \in Ids :
         Commit(t, Continue(createAdSetResume(Ctx(t), [kind |-> "data", id |-> i])))

CreateAdsBatchSucceeds(t) ==
    /\ UNCHANGED calls
    /\ tasks[t].at = "createAdsBatch"
    /\ Commit(t, Continue(createAdsResume(Ctx(t), AllOk(tasks[t].batches[tasks[t].i]))))

\* start() is the only call of the public surface, stop() is never called,
\* and every platform call succeeds.  (No tick of such a run ends in the
\* wait: every item is done at the completion check of the tick that ran.)
HappyNext ==
    \/ \E t \in Tasks : Start(t)
    \/ \E t \in Tasks : CheckLibrarySucceeds(t)
    \/ \E t \in Tasks : UploadStaggerElapses(t)
    \/ \E t \in Tasks : UploadBatchSucceeds(t)
    \/ \E t \in Tasks : PollLibraryReportsReady(t)
    \/ \E t \in Tasks : CreateCampaignSucceeds(t)
    \/ \E t \in Tasks : CreateAdSetSucceeds(t)
    \/ \E t \in Tasks : CreateAdsBatchSucceeds(t)
    \/ \E t \in Tasks : InitialPollDelayElapses(t)

HappySpec == Init /\ [][HappyNext]_vars

\* ------------------------------------------------------------------ recovery by retryFailed()

\* every invocation has returned
Idle == \A t \in Tasks : tasks[t] = NoTask

\* A first start() whose calls may fail; when it has ended with every item done
\* or failed, and some failed, retryFailed(); then start() again, whose calls
\* all succeed.  calls.all tells the three calls apart; a delay is the same
\* step in both runs.
RecoveryNext ==
    \/ \E t \in Tasks : calls.all = 0 /\ Start(t)
    \/ \E t \in Tasks : calls.all = 1 /\ CheckLibraryReturns(t)
    \/ \E t \in Tasks : calls.all \in {1, 3} /\ UploadStaggerElapses(t)
    \/ \E t \in Tasks : calls.all = 1 /\ UploadBatchReturns(t)
    \/ \E t \in Tasks : calls.all = 1 /\ PollLibraryReturns(t)
    \/ \E t \in Tasks : calls.all = 1 /\ CreateCampaignReturns(t)
    \/ \E t \in Tasks : calls.all = 1 /\ CreateAdSetReturns(t)
    \/ \E t \in Tasks : calls.all = 1 /\ CreateAdsBatchReturns(t)
    \/ \E t \in Tasks : calls.all \in {1, 3} /\ InitialPollDelayElapses(t)
    \/ \E t \in Tasks : calls.all = 1 /\ TickIntervalElapses(t)
    \/ /\ calls.all = 1 /\ Idle
       /\ \A v \in Items : media[v].status \in {"completed", "failed"}
       /\ \E v \in Items : media[v].status = "failed"
       /\ RetryFailed
    \/ \E t \in Tasks : calls.all = 2 /\ Start(t)
    \/ \E t \in Tasks : calls.all = 3 /\ CheckLibrarySucceeds(t)
    \/ \E t \in Tasks : calls.all = 3 /\ UploadBatchSucceeds(t)
    \/ \E t \in Tasks : calls.all = 3 /\ PollLibraryReportsReady(t)
    \/ \E t \in Tasks : calls.all = 3 /\ CreateCampaignSucceeds(t)
    \/ \E t \in Tasks : calls.all = 3 /\ CreateAdSetSucceeds(t)
    \/ \E t \in Tasks : calls.all = 3 /\ CreateAdsBatchSucceeds(t)

RecoverySpec == Init /\ [][RecoveryNext]_vars

\* ------------------------------------------------------------------ createAdsWithRetry (Add Ads flow)

\* chunkArray, src/unnamed/part_002 lines 87-93
chunkArray(arr, size) == SplitBatches(arr, size)

\* lines 350-361: batch a.b of the round is sent (sentIn counts, for each
\* item of the input, the batches it was sent in)
addAdsDispatch(a) ==
    [a EXCEPT !.pc = "createAdsBatch",
              !.sentIn = [i \in 1..Len(a.mediaItems) |->
                             IF i \in Range(a.batches[a.b]) THEN a.sentIn[i] + 1
                             ELSE a.sentIn[i]]]

\* lines 343-347 and 393-406: the head of the while loop, and the return
addAdsRound(a) ==
    IF Len(a.pending) > 0
    THEN addAdsDispatch([a EXCEPT !.batches = chunkArray(a.pending, AdsChunkSize),
                                  !.nextPending = <<>>, !.b = 1])
    ELSE [a EXCEPT !.pc = "returned", !.batches = <<>>, !.b = 0,
                   !.result = [success |-> Len(a.succeeded), failed |-> Len(a.failedFinal)]]

\* lines 365-387, data.forEach: entry k is "ok" (code 200) or "fail"; an entry
\* past the end of the batch has no item, and reading its name throws
RECURSIVE addAdsEntries(_, _, _, _)
addAdsEntries(a, batch, entries, k) ==
    IF k > Len(entries) THEN a
    ELSE IF k > Len(batch) THEN [a EXCEPT !.pc = "rejected"]
    ELSE LET name == a.mediaItems[batch[k]]
             attempts == a.retryMap[name] + 1
         IN IF entries[k] = "ok"
            THEN addAdsEntries([a EXCEPT !.succeeded = Append(a.succeeded, name)],
                               batch, entries, k + 1)
            ELSE IF attempts < a.maxRetries
            THEN addAdsEntries([a EXCEPT !.retryMap[name] = attempts,
                                         !.nextPending = Append(a.nextPending, batch[k])],
                               batch, entries, k + 1)
            ELSE addAdsEntries([a EXCEPT !.retryMap[name] = attempts,
                                         !.failedFinal = Append(a.failedFinal, name)],
                               batch, entries, k + 1)

\* lines 348-391: after the response to batch a.b was handled: the next batch
\* of the round, or the end of the round and the delay before the next one
addAdsNextBatch(a) ==
    IF a.b < Len(a.batches) THEN addAdsDispatch([a EXCEPT !.b = a.b + 1])
    ELSE LET a1 == [a EXCEPT !.pending = a.nextPending]
         IN IF Len(a1.pending) > 0 THEN [a1 EXCEPT !.pc = "delay"] ELSE addAdsRound(a1)

\* lines 354-388: the awaited createAdsBatch throws (there is no try block:
\* the promise rejects), answers a payload that is no array (nothing is
\* recorded for the batch), or an array
addAdsResume(a, r) ==
    IF r.kind = "throw" THEN [a EXCEPT !.pc = "rejected"]
    ELSE IF r.kind = "nonarray" THEN addAdsNextBatch(a)
    ELSE LET a1 == addAdsEntries(a, a.batches[a.b], r.entries, 1)
         IN IF a1.pc = "rejected" THEN a1 ELSE addAdsNextBatch(a1)

\* what createAdsBatch may answer to a batch
AddAdsAnswers(batch) ==
    {[kind |-> k, entries |-> <<>>] : k \in {"throw", "nonarray"}}
      \cup {[kind |-> "array", entries |-> e] : e \in SeqsUpTo({"ok", "fail"}, Len(batch) + 1)}

\* the controller is not part of the Add Ads flow
NoController ==
    /\ options = OptionsOf(TRUE, 1, 1, 0)
    /\ phase = "idle" /\ isRunning = FALSE /\ isStopped = FALSE
    /\ campaignId = Null /\ adsetId = Null /\ tick = 0 /\ error = "none"
    /\ media = <<>>
    /\ tasks = [t \in Tasks |-> NoTask]
    /\ calls = [all |-> 0, runs |-> 0]
    /\ last = [call |-> "none", ret |-> "none", sent |-> <<>>]
    /\ emitted = NoSnapshot

UnchangedController ==
    UNCHANGED <<options, phase, isRunning, isStopped, campaignId, adsetId, tick,
                error, media, tasks, calls, last, emitted>>

\* the caller is about to call createAdsWithRetry with a list of 0..MaxAdItems
\* items, whose names need not differ, and maxRetries (3 when it is left out)
AddAdsInit ==
    /\ NoController
    /\ \E items \in SeqsUpTo(AdNames, MaxAdItems) : \E retries \in 1..MaxRetriesArg :
         addAds = [AddAdsIdle EXCEPT !.pc = "called", !.mediaItems = items,
                                     !.maxRetries = retries,
                                     !.sentIn = [i \in 1..Len(items) |-> 0]]

\* lines 338-347: the call, up to the first await
CreateAdsWithRetry ==
    /\ addAds.pc = "called"
    /\ addAds' = addAdsRound([addAds EXCEPT !.pending = [i \in 1..Len(addAds.mediaItems) |-> i]])
    /\ UnchangedController

AddAdsBatchReturns ==
    /\ addAds.pc = "createAdsBatch"
    /\ \E r \in AddAdsAnswers(addAds.batches[addAds.b]) : addAds' = addAdsResume(addAds, r)
    /\ UnchangedController

\* line 392: await delay(2000) is over, the next round begins
AddAdsDelayElapses ==
    /\ addAds.pc = "delay"
    /\ addAds' = addAdsRound(addAds)
    /\ UnchangedController

AddAdsNext ==
    \/ CreateAdsWithRetry
    \/ AddAdsBatchReturns
    \/ AddAdsDelayElapses

AddAdsSpec == AddAdsInit /\ [][AddAdsNext]_vars

\* ------------------------------------------------------------------ properties

\* C1: after stop() returns and until start() or runPhase() is next called,
\* the controller dispatches no platform call: a step that starts and ends
\* with the stop flag set dispatches nothing.
C1_NoDispatchWhileStopped ==
    [][(isStopped /\ isStopped') => last'.call = "none"]_vars

\* C2: phase = 'complete' holds only in states where every media item is at
\* stage done or failed.
C2_CompleteOnlyWhenAllTerminal ==
    phase = "complete" => \A v \in Items : media[v].stage \in {"done", "failed"}

\* C3: the buckets of getStats add up to total.
C3_StatsSumEqualsTotal ==
    LET s == getStats(media)
    IN s.upload.queued + s.upload.inProgress + s.upload.failed + s.poll.waiting
         + s.ad.queued + s.ad.inProgress + s.ad.failed + s.done + s.failed = s.total

\* C4: while an earlier start() invocation is still executing, no step begins
\* a second execution of start().
C4_StartWhileExecutingIsNoop ==
    [][(\E t \in Tasks : tasks[t].kind = "start")
         => \A u \in Tasks : tasks[u].kind # "start" => tasks'[u].kind # "start"]_vars

\* C5: for every media item, status # failed implies retryCount <= maxRetries.
C5_RetryCountWithinMax ==
    \A v \in Items : media[v].status # "failed" => media[v].retryCount <= options.maxRetries

\* what start() does when the creation call it awaits answers an error payload
OnCreationError(t) ==
    Continue(IF tasks[t].at = "createCampaign"
             THEN createCampaignResume(Ctx(t), [kind |-> "error", id |-> Null])
             ELSE createAdSetResume(Ctx(t), [kind |-> "error", id |-> Null]))

\* C6: in every state where start() awaits the campaign or the ad-set creation
\* call, an error payload makes start() reject with phase = 'error', the
\* message in state.error and isRunning = false; the segment dispatches no
\* call and changes no media item, and the invocation is over.
C6_CreationErrorIsFatal ==
    \A t \in Tasks :
        (tasks[t].kind = "start" /\ tasks[t].at \in {"createCampaign", "createAdSet"})
          => LET c == OnCreationError(t)
             IN /\ c.ret = "rejected"
                /\ c.phase = "error"
                /\ c.error = (IF tasks[t].at = "createCampaign" THEN "Campaign: message"
                                                                ELSE "AdSet: message")
                /\ ~c.isRunning
                /\ c.call = "none"
                /\ c.media = media
                /\ c.task = NoTask

\* a start() rejected on the campaign call's error payload: no campaign, no ad
C6_Witness ==
    /\ last.ret = "rejected"
    /\ phase = "error"
    /\ error = "Campaign: message"
    /\ ~isRunning
    /\ campaignId = Null
    /\ \A v \in Items : media[v].adId = Null

\* C7: once campaignId is non-null it never changes, and likewise adsetId.
C7_IdsSetOnce ==
    [][/\ campaignId # Null => campaignId' = campaignId
       /\ adsetId # Null => adsetId' = adsetId]_vars

\* C8: the step that takes the answer of a check-library, upload, poll or
\* ad-creation call, whatever the answer, rejects no invocation, does not set
\* phase to 'error' and leaves state.error alone.
C8_ItemFailuresAreNotFatal ==
    [][\A t \in Tasks :
          (/\ tasks[t].at \in {"checkLibraryByName", "uploadVideoBatch",
                               "pollLibrary", "createAdsBatch"}
           /\ tasks'[t] # tasks[t])
            => /\ last'.ret # "rejected"
               /\ phase' = "error" => phase = "error"
               /\ error' = error]_vars

\* an item failed for good although no invocation was rejected
C8_Witness ==
    /\ \E v \in Items : media[v].stage = "failed" /\ media[v].error = "Max retries exceeded"
    /\ phase \notin {"error", "stopped"}
    /\ error = "none"
    /\ last.ret = "resolved"

\* C9: usedFallback of an item never changes from true back to false.
C9_UsedFallbackMonotonic ==
    [][\A v \in Items : media[v].usedFallback => media'[v].usedFallback]_vars

\* an item that used its fallback, failed for good and was reset by retryFailed()
C9_Witness ==
    \E v \in Items : /\ media[v].usedFallback
                     /\ media[v].status = "retry"
                     /\ media[v].retryCount = 0

\* C10: stage = done iff status = completed, and stage = failed iff
\* status = failed.
C10_StageStatusConsistent ==
    \A v \in Items : /\ media[v].stage = "done" <=> media[v].status = "completed"
                     /\ media[v].stage = "failed" <=> media[v].status = "failed"

\* C11: retryFailed() sets, for every item with status = failed, status =
\* retry, retryCount = 0, error = null, and stage = upload for a video without
\* fbVideoId, stage = poll for a video with fbVideoId and without
\* thumbnailUrl, stage = ad otherwise.
C11_RetryFailedResets ==
    [][RetryFailed =>
         \A v \in Items : media[v].status = "failed" =>
            /\ media'[v].status = "retry"
            /\ media'[v].retryCount = 0
            /\ media'[v].error = "null"
            /\ media'[v].stage =
                  (IF media[v].type = "video" /\ media[v].fbVideoId = Null THEN "upload"
                   ELSE IF media[v].type = "video" /\ media[v].thumbnailUrl = Null THEN "poll"
                   ELSE "ad")]_vars

\* a video that failed at the upload stage and was reset by retryFailed()
C11_Witness ==
    \E v \in Items : /\ media[v].type = "video"
                     /\ media[v].fbVideoId = Null
                     /\ media[v].stage = "upload"
                     /\ media[v].status = "retry"
                     /\ media[v].retryCount = 0
                     /\ media[v].error = "null"
                     /\ ~media[v].usedFallback

\* C12: retryFailed() dispatches no platform call, leaves phase, isRunning,
\* isStopped, tick, campaignId, adsetId and the suspended invocations
\* unchanged, leaves every item whose status is not failed unchanged, and
\* leaves usedFallback, fbVideoId, thumbnailUrl and adId of the failed items
\* unchanged.
C12_RetryFailedDoesNotRestart ==
    [][RetryFailed =>
         /\ last'.call = "none"
         /\ UNCHANGED <<phase, isRunning, isStopped, tick, campaignId, adsetId, tasks>>
         /\ \A v \in Items :
              IF media[v].status # "failed" THEN media'[v] = media[v]
              ELSE /\ media'[v].usedFallback = media[v].usedFallback
                   /\ media'[v].fbVideoId = media[v].fbVideoId
                   /\ media'[v].thumbnailUrl = media[v].thumbnailUrl
                   /\ media'[v].adId = media[v].adId]_vars

\* retryFailed() after a stopped pass: one item reset, another one, uploaded,
\* left where it was, the stop flag still set and nothing running
C12_Witness ==
    /\ isStopped
    /\ phase = "stopped"
    /\ \A t \in Tasks : tasks[t] = NoTask
    /\ \E v \in Items : media[v].status = "retry" /\ media[v].retryCount = 0

\* C13: a snapshot is immutable with respect to the controller: what the
\* holder of a snapshot reads through its media property after a later step
\* of the controller is what the media list held when the snapshot was made;
\* for the snapshot getState() returns before the step, and for the one the
\* progress sink received last.
C13_SnapshotsAreImmutable ==
    [][/\ LET s == getState(Ctx(1)) IN ReadMedia(s, media') = s.seen
       /\ emitted # NoSnapshot => ReadMedia(emitted, media') = emitted.seen]_vars

\* C14: every step that changes phase or a media item has emitted that new
\* state when it ends (the controller suspends or returns): the phase and the
\* media of the last emission are the current ones.
C14_EveryMutationIsEmitted ==
    [][(phase' # phase \/ media' # media)
         => (emitted'.phase = phase' /\ emitted'.seen = media')]_vars

\* C15: stop() sets isStopped = true, isRunning = false and phase = 'stopped',
\* and a second stop() right after it leaves the state as the first one left
\* it; in every state stop() may be called in.
C15_StopIsIdempotent ==
    LET c == stop(Ctx(1))
    IN /\ c.isStopped
       /\ ~c.isRunning
       /\ c.phase = "stopped"
       /\ stop(c) = c

\* stop() was called while a start() invocation is suspended
C15_Witness ==
    /\ isStopped /\ ~isRunning /\ phase = "stopped"
    /\ emitted.phase = "stopped"
    /\ \E t \in Tasks : tasks[t].kind = "start"

\* the platform operations of a stage, and the stage of an await
C16_StageCalls(name) ==
    CASE name = "check" -> {"checkLibraryByName"}
      [] name = "upload" -> {"uploadVideoBatch"}
      [] name = "campaign" -> {"createCampaign", "createAdSet"}
      [] name = "ads" -> {"createAdsBatch"}
      [] name = "poll" -> {"pollLibrary"}

C16_StageOf(at) ==
    CASE at = "checkLibraryByName" -> "check"
      [] at \in {"uploadVideoBatch", "uploadStagger"} -> "upload"
      [] at \in {"createCampaign", "createAdSet"} -> "campaign"
      [] at = "createAdsBatch" -> "ads"
      [] at = "pollLibrary" -> "poll"
      [] OTHER -> "none"

\* C16: runPhase(name) clears the stop flag, and every segment of the
\* invocation, the first and each resumption, dispatches no platform call
\* but one of the named stage, leaves tick unchanged, and ends the
\* invocation or suspends it inside the named stage.
C16_RunPhaseRunsOneStage ==
    [][/\ \A t \in Tasks : \A name \in {"check", "upload", "campaign", "ads", "poll"} :
            RunPhase(t, name) =>
              /\ ~isStopped'
              /\ tick' = tick
              /\ last'.call \in C16_StageCalls(name) \cup {"none"}
              /\ tasks'[t] = NoTask \/ C16_StageOf(tasks'[t].at) = name
       /\ \A t \in Tasks :
            (tasks[t].kind = "runPhase" /\ tasks'[t] # tasks[t]) =>
              /\ tick' = tick
              /\ last'.call \in C16_StageCalls(C16_StageOf(tasks[t].at)) \cup {"none"}
              /\ tasks'[t] = NoTask \/ C16_StageOf(tasks'[t].at) = C16_StageOf(tasks[t].at)]_vars

\* runPhase('campaign') has made its second call, with the campaign created
C16_Witness ==
    /\ last.call = "createAdSet"
    /\ campaignId # Null
    /\ \E t \in Tasks : tasks[t].kind = "runPhase" /\ tasks[t].at = "createAdSet"
    /\ \A t \in Tasks : tasks[t].kind # "start"

\* C17: at most one platform call is in flight at any time.
C17_OneCallInFlight ==
    Cardinality({t \in Tasks : tasks[t].at \in {"checkLibraryByName", "uploadVideoBatch",
                                                 "pollLibrary", "createCampaign",
                                                 "createAdSet", "createAdsBatch"}}) <= 1

\* C18: tick never decreases, a step increases it by at most one, and it
\* never exceeds maxTicks.
C18_TickMonotonicBounded ==
    [][tick' \in {tick, tick + 1} /\ tick' <= options.maxTicks]_vars

\* the tick loop went through two iterations and used up its budget
C18_Witness ==
    tick = 2 /\ tick = options.maxTicks

\* the answer in which every video of the batch in flight was uploaded
C19_AllUploaded(t) ==
    [kind |-> "array", entries |-> [k \in 1..Len(tasks[t].batches[tasks[t].i]) |-> "ok"]]

\* C19: (1) the step that takes the answer of an upload call leaves a video
\* of the batch that has a fallback URL, had not used it and was at its first
\* attempt, when the attempt failed (the video changed and is not at stage
\* poll), at stage upload with status retry, usedFallback true and retryCount
\* 1; (2) an upload call carries for each video of its batch fallbackUrl if
\* usedFallback is true and url otherwise; (3) the url field of a video never
\* changes; (4) an answer that reports every video of the batch uploaded
\* moves each of them to stage poll.
C19_UploadFallback ==
    [][/\ \A t \in Tasks :
            (tasks[t].at = "uploadVideoBatch" /\ tasks'[t] # tasks[t]) =>
              \A v \in Range(tasks[t].batches[tasks[t].i]) :
                 (/\ media[v].fallbackUrl /\ ~media[v].usedFallback
                  /\ media[v].retryCount = 0
                  /\ media'[v] # media[v] /\ media'[v].stage # "poll")
                   => /\ media'[v].stage = "upload"
                      /\ media'[v].status = "retry"
                      /\ media'[v].usedFallback
                      /\ media'[v].retryCount = 1
       /\ \A t \in Tasks :
            (tasks'[t].at = "uploadVideoBatch" /\ tasks'[t] # tasks[t]) =>
              LET batch == tasks'[t].batches[tasks'[t].i]
              IN /\ last'.call = "uploadVideoBatch"
                 /\ Len(last'.sent) = Len(batch)
                 /\ \A k \in 1..Len(batch) :
                       last'.sent[k] = IF media'[batch[k]].usedFallback THEN "fallbackUrl"
                                                                       ELSE "url"
       /\ \A v \in Items : media[v].type = "video" => media'[v].url = media[v].url
       /\ \A t \in Tasks :
            tasks[t].at = "uploadVideoBatch" =>
              \A v \in Range(tasks[t].batches[tasks[t].i]) :
                 uploadVideosResume(Ctx(t), C19_AllUploaded(t)).media[v].stage = "poll"]_vars

\* the batches of a list, one after the other
RECURSIVE C20_Flat(_)
C20_Flat(b) == IF Len(b) = 0 THEN <<>> ELSE Head(b) \o C20_Flat(Tail(b))

C20_InUploadPass(task) == task.at \in {"uploadVideoBatch", "uploadStagger"}

\* C20: an upload pass over n selected videos with batch size B and no stop
\* dispatches exactly ceil(n/B) batches in the order of the partition, each
\* selected video in exactly one batch, with one stagger delay before every
\* batch but the first.  (1) When a pass begins, its batch list is the
\* selection in array order cut into ceil(n/B) pieces of B videos (the last
\* one the rest), and batch 1 is sent at once; a pass that begins a fresh
\* invocation selects every video at stage upload with status queued or
\* retry.  (2) When the answer of batch i is in, the pass goes, unless
\* stopped, to the stagger delay of batch i + 1 without sending anything, and
\* ends only after the last batch.  (3) When the delay is over batch i + 1 is
\* sent.
C20_UploadBatching ==
    [][\A t \in Tasks :
         LET old == tasks[t]
             new == tasks'[t]
             flat == C20_Flat(new.batches)
             n == Len(flat)
             B == options.uploadBatchSize
         IN /\ (new.at = "uploadVideoBatch" /\ ~C20_InUploadPass(old)) =>
                  /\ n > 0
                  /\ \A j, k \in 1..n : j < k => flat[j] < flat[k]
                  /\ \A k \in 1..n : /\ media'[flat[k]].type = "video"
                                     /\ media'[flat[k]].stage = "upload"
                                     /\ media'[flat[k]].status = "in_progress"
                  /\ Len(new.batches) * B >= n
                  /\ (Len(new.batches) - 1) * B < n
                  /\ \A k \in 1..Len(new.batches) :
                        new.batches[k] = SubSeq(flat, (k - 1) * B + 1, Min(k * B, n))
                  /\ new.i = 1
                  /\ last'.call = "uploadVideoBatch"
                  /\ old.kind = "none" =>
                        Range(flat) = {v \in Items : /\ media[v].type = "video"
                                                     /\ media[v].stage = "upload"
                                                     /\ media[v].status \in {"queued", "retry"}}
            /\ (old.at = "uploadVideoBatch" /\ new # old) =>
                  IF old.i < Len(old.batches) /\ ~isStopped
                  THEN /\ new.at = "uploadStagger"
                       /\ new.i = old.i + 1
                       /\ new.batches = old.batches
                       /\ last'.call = "none"
                  ELSE ~C20_InUploadPass(new)
            /\ (old.at = "uploadStagger" /\ new # old) =>
                  /\ new.at = "uploadVideoBatch"
                  /\ new.i = old.i
                  /\ new.batches = old.batches
                  /\ last'.call = "uploadVideoBatch"]_vars

\* two videos, batch size 1: the second of two batches was sent after its
\* stagger delay, with no stop
C20_Witness ==
    /\ ~isStopped
    /\ options.uploadBatchSize = 1
    /\ last.call = "uploadVideoBatch"
    /\ \E t \in Tasks : /\ tasks[t].at = "uploadVideoBatch"
                         /\ tasks[t].i = 2
                         /\ Len(tasks[t].batches) = 2

\* the terminal outcome of a failure handler on item x with new count n
C21_Failed(x, n) ==
    [x EXCEPT !.retryCount = n, !.stage = "failed", !.status = "failed",
              !.error = "Max retries exceeded"]

\* C21: in every state, handleUploadFailure on a video changes that video
\* only, adds 1 to retryCount and then: with a fallback URL not yet used sets
\* usedFallback and status = retry; else with the new retryCount < maxRetries
\* sets status = retry; else sets stage = failed, status = failed and the
\* error.  For maxRetries >= 1 a handled failure, upload or ad, of an item
\* without fallback URL makes it failed exactly when it is at least the
\* maxRetries-th since the counter was reset.
C21_UploadFailureHandler ==
    \A v \in Items :
        LET x == media[v]
            n == x.retryCount + 1
            m2 == handleUploadFailure(media, v)
        IN /\ x.type = "video" =>
                /\ \A w \in Items \ {v} : m2[w] = media[w]
                /\ m2[v].retryCount = x.retryCount + 1
                /\ m2[v] = (IF x.fallbackUrl /\ ~x.usedFallback
                            THEN [x EXCEPT !.retryCount = n, !.usedFallback = TRUE,
                                           !.status = "retry"]
                            ELSE IF n < options.maxRetries
                            THEN [x EXCEPT !.retryCount = n, !.status = "retry"]
                            ELSE C21_Failed(x, n))
           /\ (~x.fallbackUrl /\ options.maxRetries >= 1) =>
                /\ x.type = "video" =>
                       (m2[v].status = "failed" <=> n >= options.maxRetries)
                /\ handleAdFailure(media, v)[v].status = "failed" <=> n >= options.maxRetries

\* a video without fallback URL failed at its second handled failure, with
\* maxRetries = 2
C21_Witness ==
    /\ options.maxRetries = 2
    /\ \E v \in Items : /\ media[v].type = "video" /\ ~media[v].fallbackUrl
                         /\ media[v].stage = "failed" /\ media[v].status = "failed"
                         /\ media[v].retryCount = 2

\* C22: in every state, handleAdFailure changes the one item only, adds 1 to
\* retryCount and then: for an image with a fallback URL not yet used sets
\* usedFallback, overwrites url with the fallback URL and sets status =
\* retry; for any other item sets status = retry if the new retryCount <
\* maxRetries and else stage = failed, status = failed and the error.  It
\* leaves usedFallback and url of a video as they are.
C22_AdFailureHandler ==
    \A v \in Items :
        LET x == media[v]
            n == x.retryCount + 1
            m2 == handleAdFailure(media, v)
        IN /\ \A w \in Items \ {v} : m2[w] = media[w]
           /\ m2[v].retryCount = x.retryCount + 1
           /\ m2[v] = (IF x.type = "image" /\ x.fallbackUrl /\ ~x.usedFallback
                       THEN [x EXCEPT !.retryCount = n, !.usedFallback = TRUE,
                                      !.url = "fallbackUrl", !.status = "retry"]
                       ELSE IF n < options.maxRetries
                       THEN [x EXCEPT !.retryCount = n, !.status = "retry"]
                       ELSE C21_Failed(x, n))
           /\ x.type = "video" =>
                 m2[v].usedFallback = x.usedFallback /\ m2[v].url = x.url

\* an image whose ad failed once and now carries its fallback URL
C22_Witness ==
    \E v \in Items : /\ media[v].type = "image"
                     /\ media[v].usedFallback /\ media[v].url = "fallbackUrl"
                     /\ media[v].stage = "ad" /\ media[v].status = "retry"
                     /\ media[v].retryCount = 1

\* C23: whenever an upload or ad-creation batch call is in flight, a thrown
\* call and a non-itemized answer each change every item of the batch as one
\* application of the failure handler of that stage does (retryCount + 1),
\* and change no other item.
C23_BatchFailureHandlesEachOnce ==
    \A t \in Tasks : \A kind \in {"throw", "nonarray"} :
        LET batch == tasks[t].batches[tasks[t].i]
            r == [kind |-> kind, entries |-> <<>>]
        IN /\ tasks[t].at = "uploadVideoBatch" =>
                LET m2 == uploadResponse(media, batch, r)
                IN \A v \in Items :
                      IF v \in Range(batch)
                      THEN /\ m2[v] = handleUploadFailure(media, v)[v]
                           /\ m2[v].retryCount = media[v].retryCount + 1
                      ELSE m2[v] = media[v]
           /\ tasks[t].at = "createAdsBatch" =>
                LET m2 == adResponse(media, batch, r)
                IN \A v \in Items :
                      IF v \in Range(batch)
                      THEN /\ m2[v] = handleAdFailure(media, v)[v]
                           /\ m2[v].retryCount = media[v].retryCount + 1
                      ELSE m2[v] = media[v]

\* both videos of one batch of two were handled once
C23_Witness ==
    /\ options.uploadBatchSize = 2
    /\ Len(media) = 2
    /\ \A v \in Items : /\ media[v].type = "video" /\ media[v].stage = "upload"
                         /\ media[v].status = "retry" /\ media[v].retryCount = 1
    /\ \A t \in Tasks : tasks[t].at # "uploadVideoBatch"

\* what pollVideos does when the poll call it awaits throws
C24_OnPollThrow(t) == pollVideosResume(Ctx(t), [kind |-> "throw", ready |-> {}])

C25_OutcomeDependsOnOwnEntry ==
    \A t \in Tasks :
        LET batch == tasks[t].batches[tasks[t].i] IN
        /\ tasks[t].at = "uploadVideoBatch" =>
              \A r \in {a \in BatchAnswers(batch) : a.kind = "array"} :
                 LET m2 == uploadResponse(media, batch, r)
                 IN /\ \A k \in 1..Min(Len(batch), Len(r.entries)) :
                          r.entries[k] = "ok" =>
                             m2[batch[k]].stage = "poll" /\ m2[batch[k]].status = "queued"
                    /\ \A v \in Range(batch) : m2[v].retryCount <= media[v].retryCount + 1
        /\ tasks[t].at = "createAdsBatch" =>
              \A r \in {a \in BatchAnswers(batch) : a.kind = "array"} :
                 LET m2 == adResponse(media, batch, r)
                 IN /\ \A k \in 1..Min(Len(batch), Len(r.entries)) :
                          r.entries[k] = "ok" =>
                             m2[batch[k]].stage = "done" /\ m2[batch[k]].status = "completed"
                    /\ \A v \in Range(batch) : m2[v].retryCount <= media[v].retryCount + 1

\* the videos an upload pass would select
C26_Uploadable(m) ==
    {v \in DOMAIN m : /\ m[v].type = "video" /\ m[v].stage = "upload"
                      /\ m[v].status \in {"queued", "retry"}}

\* C26: whenever the library check is in flight, every answer changes exactly
\* the videos it reports ready with a picture, setting fbVideoId,
\* thumbnailUrl, stage = ad and status = queued, and no other item; a thrown
\* call changes no item, and start() then goes on to the upload stage (it
\* sends the first upload batch if a video is to upload) without failing.
C26_CheckLibraryFrame ==
    \A t \in Tasks :
        tasks[t].at = "checkLibraryByName" =>
            \A r \in LibraryAnswers(Videos) :
               LET c == checkLibraryResume(Ctx(t), r)
                   d == Continue(c)
               IN /\ \A v \in Items :
                       IF r.kind = "data" /\ v \in r.ready
                       THEN /\ media[v].type = "video"
                            /\ c.media[v].fbVideoId # Null /\ c.media[v].thumbnailUrl # Null
                            /\ c.media[v] = [media[v] EXCEPT !.fbVideoId = c.media[v].fbVideoId,
                                                             !.thumbnailUrl = c.media[v].thumbnailUrl,
                                                             !.stage = "ad", !.status = "queued"]
                       ELSE c.media[v] = media[v]
                  /\ (r.kind = "throw" /\ tasks[t].kind = "start" /\ ~isStopped) =>
                       /\ d.ret # "rejected" /\ d.phase # "error" /\ d.error = error
                       /\ C26_Uploadable(media) # {} =>
                             d.phase = "uploading" /\ d.call = "uploadVideoBatch"

\* runPhase('check') found a video that was still to upload in the library
C26_Witness ==
    /\ phase = "checking" /\ emitted.phase = "checking"
    /\ last.ret = "resolved"
    /\ \E v \in Items : /\ media[v].type = "video" /\ media[v].stage = "ad"
                         /\ media[v].status = "queued"
                         /\ media[v].fbVideoId # Null /\ media[v].thumbnailUrl # Null
                         /\ emitted.seen[v] = media[v]

\* C27: a poll call is sent for the videos at stage poll with a video id, all
\* of them in one call; and whenever a poll call is in flight, every answer
\* changes exactly the polled videos it reports ready with a picture, setting
\* thumbnailUrl, stage = ad and status = queued: retryCount of every item
\* stays, and no item becomes failed.
C27_PollFrame ==
    [][\A t \in Tasks :
         /\ (tasks'[t].at = "pollLibrary" /\ tasks'[t] # tasks[t]) =>
               /\ last'.call = "pollLibrary"
               /\ tasks'[t].sel = {v \in Items : /\ media'[v].type = "video"
                                                  /\ media'[v].stage = "poll"
                                                  /\ media'[v].fbVideoId # Null}
         /\ tasks[t].at = "pollLibrary" =>
               \A r \in LibraryAnswers(tasks[t].sel) :
                  LET c == pollVideosResume(Ctx(t), r)
                  IN \A v \in Items :
                        /\ c.media[v].retryCount = media[v].retryCount
                        /\ c.media[v].status = "failed" => media[v].status = "failed"
                        /\ IF r.kind = "data" /\ v \in r.ready
                           THEN /\ v \in tasks[t].sel
                                /\ c.media[v].thumbnailUrl # Null
                                /\ c.media[v] = [media[v] EXCEPT
                                                    !.thumbnailUrl = c.media[v].thumbnailUrl,
                                                    !.stage = "ad", !.status = "queued"]
                           ELSE c.media[v] = media[v]]_vars

\* runPhase('poll') found an uploaded video ready
C27_Witness ==
    /\ phase = "polling" /\ emitted.phase = "polling"
    /\ last.ret = "resolved"
    /\ \E v \in Items : /\ media[v].type = "video" /\ media[v].stage = "ad"
                         /\ media[v].status = "queued"
                         /\ media[v].fbVideoId # Null /\ media[v].thumbnailUrl # Null

\* C28: (1) the upload pass that begins in a state selects only videos at
\* stage upload with status queued or retry, the ad pass only items at stage
\* ad with status queued or retry; (2) while a batch call is in flight every
\* item of its batch has status in_progress.
C28_BatchMembership ==
    /\ LET up == uploadVideos([Ctx(1) EXCEPT !.isStopped = FALSE])
           ad == createAds([Ctx(1) EXCEPT !.isStopped = FALSE])
       IN /\ Range(C20_Flat(up.task.batches)) \subseteq C26_Uploadable(media)
          /\ \A v \in Range(C20_Flat(ad.task.batches)) :
                media[v].stage = "ad" /\ media[v].status \in {"queued", "retry"}
    /\ \A t \in Tasks :
          tasks[t].at \in {"uploadVideoBatch", "createAdsBatch"} =>
             \A v \in Range(tasks[t].batches[tasks[t].i]) : media[v].status = "in_progress"

\* the steps of a tick in their order: 1 the poll, 2 the ad batches, 3 the
\* upload retry, 4 the completion check and the wait (0: not in a tick)
C29_Rank(ctx) ==
    CASE ctx = "tick.poll" -> 1
      [] ctx = "tick.ads" -> 2
      [] ctx = "tick.upload" -> 3
      [] ctx = "runTickLoop" -> 4
      [] OTHER -> 0

C29_Retryable(m) ==
    \E v \in DOMAIN m : m[v].type = "video" /\ m[v].stage = "upload" /\ m[v].status = "retry"

\* C29: for every segment of a start() invocation that is in its tick loop:
\* (1) the call it sends is the one of the step it suspends in (poll lookup,
\* ad batch, upload batch; none for the wait); (2) a segment resumed inside a
\* tick stays in that tick and never goes back to an earlier step, so the
\* poll precedes the ad batches, these the upload batches, and the wait or
\* the end follows all three; (3) only the segment resumed from the wait
\* begins a tick; (4) the segment that enters the upload retry sends a batch
\* of videos at stage upload, and a segment that passes the upload-retry
\* step without a stop and without an upload leaves no video at stage upload
\* with status retry.
C29_TickOrder ==
    [][\A t \in Tasks :
         LET old == tasks[t]
             new == tasks'[t]
         IN (old.kind = "start" /\ C29_Rank(old.ctx) > 0 /\ new # old) =>
              /\ C29_Rank(new.ctx) = 1 => last'.call = "pollLibrary"
              /\ C29_Rank(new.ctx) = 2 => last'.call = "createAdsBatch"
              /\ C29_Rank(new.ctx) = 3 => last'.call \in {"uploadVideoBatch", "none"}
              /\ C29_Rank(new.ctx) = 4 => last'.call = "none" /\ new.at = "tickInterval"
              /\ new = NoTask \/ C29_Rank(new.ctx) > 0
              /\ C29_Rank(old.ctx) < 4 =>
                    /\ tick' = tick
                    /\ new = NoTask \/ C29_Rank(new.ctx) >= C29_Rank(old.ctx)
              /\ tick' # tick => C29_Rank(old.ctx) = 4 /\ tick' = tick + 1
              /\ (C29_Rank(old.ctx) # 3 /\ C29_Rank(new.ctx) = 3) =>
                    /\ last'.call = "uploadVideoBatch"
                    /\ \A v \in Range(C20_Flat(new.batches)) :
                          media'[v].type = "video" /\ media'[v].stage = "upload"
              /\ (/\ C29_Rank(old.ctx) < 3 \/ tick' # tick
                  /\ new = NoTask \/ C29_Rank(new.ctx) = 4
                  /\ ~isStopped) => ~C29_Retryable(media')]_vars

\* a tick re-runs the upload stage for a video whose first upload failed
C29_Witness ==
    /\ tick >= 1
    /\ last.call = "uploadVideoBatch"
    /\ \E t \in Tasks : /\ tasks[t].kind = "start" /\ tasks[t].ctx = "tick.upload"
                         /\ tasks[t].at = "uploadVideoBatch"
                         /\ \A v \in Range(C20_Flat(tasks[t].batches)) : media[v].retryCount >= 1

\* C30 as stated: a segment of a start() invocation that is in its tick loop
\* sets phase to no value but 'polling', 'creating_ads' and 'complete'
\* ('stopped' is set by stop()).
C30_PhaseOscillates ==
    [][\A t \in Tasks :
         (/\ tasks[t].kind = "start" /\ C29_Rank(tasks[t].ctx) > 0
          /\ tasks'[t] # tasks[t] /\ phase' # phase)
           => phase' \in {"polling", "creating_ads", "complete", "stopped"}]_vars

\* C30 amended: a segment of a start() invocation that is in its tick loop
\* sets phase to no value but 'polling', 'creating_ads', 'complete' and, when
\* the tick re-runs the upload stage, 'uploading'.
C30_PhaseInTickLoop ==
    [][\A t \in Tasks :
         (/\ tasks[t].kind = "start" /\ C29_Rank(tasks[t].ctx) > 0
          /\ tasks'[t] # tasks[t] /\ phase' # phase)
           => \/ phase' \in {"polling", "creating_ads", "complete"}
              \/ phase' = "uploading" /\ tasks'[t].ctx = "tick.upload"]_vars

\* the upload retry of a tick is in flight and phase is 'uploading'
C30_Witness ==
    /\ phase = "uploading" /\ emitted.phase = "uploading"
    /\ tick >= 1
    /\ \E t \in Tasks : /\ tasks[t].kind = "start" /\ tasks[t].ctx = "tick.upload"
    /\ \A t \in Tasks : tasks[t].kind # "runPhase"

\* the completion check of a tick sees the media list m as finished
C31_AllTerminal(m) == getStats(m).done + getStats(m).failed = getStats(m).total

\* C31: a segment of a start() invocation that runs the completion check of a
\* tick (it comes back from a step of the tick, or begins a tick, and does not
\* suspend in a step) and finds count(done) + count(failed) = total sets phase
\* 'complete' and ends the invocation there: start() resolves, with no call
\* dispatched and no delay begun, whatever tick budget remains.
C31_CompletionEndsLoop ==
    [][\A t \in Tasks :
         (/\ tasks[t].kind = "start" /\ tasks'[t] # tasks[t]
          /\ \/ tasks[t].ctx \in {"tick.poll", "tick.ads", "tick.upload"}
             \/ tasks[t].ctx = "runTickLoop" /\ tick' = tick + 1
          /\ tasks'[t].at \in {"none", "tickInterval"}
          /\ C31_AllTerminal(media'))
           => /\ tasks'[t] = NoTask
              /\ phase' = "complete" /\ emitted'.phase = "complete"
              /\ last'.call = "none" /\ last'.ret = "resolved"
              /\ ~isRunning']_vars

\* a single start() resolved by the completion check of tick 1 of 2
C31_Witness ==
    /\ calls.all = 1 /\ calls.runs = 1
    /\ last.ret = "resolved" /\ phase = "complete"
    /\ tick = 1 /\ tick < options.maxTicks
    /\ C31_AllTerminal(media)
    /\ \A t \in Tasks : tasks[t] = NoTask

\* C32: an ad-creation batch is dispatched only when the campaign and the ad
\* set exist: the segment that sent createAdsBatch leaves both ids non-null.
C32_AdsNeedCampaignAndAdSet ==
    last.call = "createAdsBatch" => campaignId # Null /\ adsetId # Null

\* every item is done, with its ad
C33_AllDone ==
    \A v \in Items : media[v].stage = "done" /\ media[v].status = "completed" /\ media[v].adId # Null

\* C33: on the happy path (only start() is called, maxTicks >= 1, every
\* platform call succeeds and every polled video is reported ready) a start()
\* that resolved leaves every item at stage done, status completed, with its
\* adId, and phase 'complete'.
C33_HappyPathResult ==
    (last.ret = "resolved" /\ \A t \in Tasks : tasks[t] = NoTask)
        => C33_AllDone /\ phase = "complete"

\* C34: done is terminal: an item at stage done with its adId keeps its stage,
\* status and adId in every step, and no step sends it in an upload or ad
\* batch.
C34_DoneIsTerminal ==
    [][\A v \in Items :
         (media[v].stage = "done" /\ media[v].adId # Null)
           => /\ media'[v].stage = "done"
              /\ media'[v].status = media[v].status
              /\ media'[v].adId = media[v].adId
              /\ \A t \in Tasks :
                   (last'.call \in {"uploadVideoBatch", "createAdsBatch"}
                      /\ tasks'[t].at = last'.call /\ tasks'[t] # tasks[t])
                     => v \notin Range(tasks'[t].batches[tasks'[t].i])]_vars

\* C35: when no invocation is executing or waiting for a call (every start()
\* and runPhase() has returned), no item has status in_progress.
C35_NoneLeftInProgress ==
    (\A t \in Tasks : tasks[t] = NoTask) => \A v \in Items : media[v].status # "in_progress"

\* C36: recovery: the first start() ended with every item done or failed,
\* retryFailed() reset the failed ones, and every call of the second start()
\* succeeded: when the second start() has resolved, every item is at stage done.
C36_RetryThenStartFinishes ==
    (calls.all = 3 /\ Idle /\ last.ret = "resolved")
        => \A v \in Items : media[v].stage = "done"

\* what is left of the stage invocation t is suspended in: the batches still
\* to send (each with its stagger delay), the calls still to make
C37_LeftInStage(task) ==
    CASE task.at \in {"uploadVideoBatch", "createAdsBatch"} -> 2 * (Len(task.batches) - task.i) + 1
      [] task.at = "uploadStagger" -> 2 * (Len(task.batches) - task.i) + 2
      [] task.at = "createCampaign" -> 2
      [] task.at \in {"createAdSet", "checkLibraryByName", "pollLibrary"} -> 1
      [] OTHER -> 0

\* the steps of start() before the tick loop count down 3, 2, 1; the steps of
\* a tick count down 3, 2, 1 and 0 for the wait
C37_Rank(ctx) ==
    CASE ctx \in {"start.check", "tick.poll"} -> 3
      [] ctx \in {"start.upload", "tick.ads"} -> 2
      [] ctx \in {"start.campaign", "tick.upload"} -> 1
      [] OTHER -> 0

\* a bound on what start() invocation t still has to do: the ticks left, the
\* steps left in the tick, the calls left in the stage
C37_Left(t) ==
    LET ticks == IF tasks[t].ctx \in {"start.check", "start.upload", "start.campaign"}
                 THEN options.maxTicks
                 ELSE options.maxTicks - tick
    IN (4 * ticks + C37_Rank(tasks[t].ctx)) * (2 * Len(media) + 3) + C37_LeftInStage(tasks[t])

\* the invocation waits at a place whose return step is one of Returns: a
\* call or a delay of the code, and for a batch call a batch of its list
C37_Waits(task) ==
    /\ task.at \in {"checkLibraryByName", "uploadStagger", "uploadVideoBatch", "pollLibrary",
                    "createCampaign", "createAdSet", "createAdsBatch",
                    "initialPollDelay", "tickInterval"}
    /\ task.at \in {"uploadStagger", "uploadVideoBatch", "createAdsBatch"}
         => task.i \in 1..Len(task.batches)

\* C37: termination: a pending start() invocation always waits for a call or
\* a delay whose return lets it go on; each of its segments ends it or leaves
\* it strictly less to do, the tick count never passing maxTicks; and the
\* segment that ends it resolves or rejects it and leaves isRunning false.
C37_StartTerminates ==
    [][\A t \in Tasks :
         (tasks'[t] # tasks[t] /\ "start" \in {tasks[t].kind, tasks'[t].kind})
           => /\ tick' <= options.maxTicks
              /\ tasks'[t].kind = "start" => C37_Waits(tasks'[t])
              /\ tasks[t].kind = "start" =>
                    \/ /\ tasks'[t] = NoTask
                       /\ last'.ret \in {"resolved", "rejected"}
                       /\ ~isRunning'
                    \/ /\ tasks'[t].kind = "start"
                       /\ C37_Left(t)' < C37_Left(t)]_vars

\* a single start() that used every tick of its budget has resolved
C37_Witness ==
    /\ calls.all = 1 /\ calls.runs = 1
    /\ last.ret = "resolved" /\ ~isRunning /\ Idle
    /\ options.maxTicks = MaxTicksOpt /\ tick = options.maxTicks

\* C38: from stop() until start() or runPhase() is next called (isStopped is
\* set by the one and cleared by the others only), phase is 'stopped'.
C38_PhaseStaysStopped ==
    isStopped => phase = "stopped"

\* C39: every video of an ad batch that has been sent has its platform video
\* id and its thumbnail.
C39_AdBatchVideosAreReady ==
    \A t \in Tasks :
        tasks[t].at = "createAdsBatch" =>
            \A v \in Range(tasks[t].batches[tasks[t].i]) :
                media[v].type = "video" =>
                    media[v].fbVideoId # Null /\ media[v].thumbnailUrl # Null

\* C40: no item is sent in more than maxRetries batches, and when
\* createAdsWithRetry has returned every input item is counted once:
\* success + failed = mediaItems.length.
C40_EveryItemAccounted ==
    /\ \A i \in 1..Len(addAds.mediaItems) : addAds.sentIn[i] <= addAds.maxRetries
    /\ addAds.pc = "returned"
         => addAds.result.success + addAds.result.failed = Len(addAds.mediaItems)

=============================================================================
